---- MODULE Spec2Model ----
(***************************************************************************)
(* Model of script/src/bin/main.rs of sp1-zkemail: one process run that    *)
(* checks the run mode, reads the test email, generates the email inputs   *)
(* through the external canonicalizer (generate_email_inputs) and then     *)
(* either executes the zkVM program or proves and verifies it.             *)
(*                                                                         *)
(* The file system, the canonicalizer child process and the SP1 prover     *)
(* client are the environment: their outcomes are nondeterministic.        *)
(* A panic (expect / unwrap) ends the process with exit code 101,          *)
(* std::process::exit(1) with 1, a return from main with 0.                *)
(***************************************************************************)
EXTENDS Integers, Sequences, FiniteSets, TLC

\* ---------------------------------------------------------------- bounds
\* Number of fields of an artifact that may deviate from a well-formed one.
MaxDeviant == 1
\* Largest instruction count the execution report may carry.
MaxCycles == 2

\* ------------------------------------------------------- program constants
\* Exit status of a return from main, of std::process::exit(1), of a panic.
ExitOk == 0
ExitConfig == 1
ExitPanic == 101

\* ------------------------------------------------------------- data model
\* Option<T>: the empty sequence is None, a one-element sequence is Some(x).
NoneV == <<>>
Some(x) == <<x>>
IsSome(o) == o # NoneV
Unwrap(o) == o[1]

\* Contents a test email file can hold.
Emails == {"mail1", "mail2"}

\* struct Args: the two mode flags (n is never read by main).
Args == [execute : BOOLEAN, prove : BOOLEAN]

\* struct EmailInputs with #[serde(rename_all = "camelCase")]: the Rust field
\* names in declaration order, and the JSON key of each.
FieldOrder == <<"public_key", "signature", "headers", "body", "body_hash">>
Fields == {FieldOrder[i] : i \in 1..Len(FieldOrder)}
camelCase(field) ==
    CASE field = "public_key" -> "publicKey"
      [] field = "body_hash" -> "bodyHash"
      [] OTHER -> field
Keys == {camelCase(f) : f \in Fields}

\* A JSON value at a key / array position, as far as a String field can tell
\* them apart: a non-empty string, the empty string, a value that is not a
\* string (number, null, ...), or no value at all.
StrVal == "v"
EmptyStr == ""
NotString == "number"
Missing == "missing"
JsonVals == {StrVal, EmptyStr, NotString, Missing}

Deviants(f) == {k \in DOMAIN f : f[k] # StrVal}

\* Contents of email-inputs.json: bytes that are not UTF-8, text that is not
\* JSON (or JSON of another shape), a JSON object over the five keys, or a
\* JSON array.
BytesDoc == [kind |-> "bytes"]
TextDoc == [kind |-> "text"]
ObjectDocs ==
    {[kind |-> "object", fields |-> f] :
        f \in {g \in [Keys -> JsonVals] : Cardinality(Deviants(g)) <= MaxDeviant}}
ArrayDocs ==
    UNION {{[kind |-> "array", elems |-> s] :
              s \in {t \in [1..n -> JsonVals \ {Missing}] :
                        Cardinality(Deviants(t)) <= MaxDeviant}} :
           n \in (Len(FieldOrder) - 1)..Len(FieldOrder)}
Docs == {BytesDoc, TextDoc} \cup ObjectDocs \cup ArrayDocs

\* email-inputs.json on disk: its content and who wrote it (a previous run
\* or the canonicalizer of this run).
Artifacts == [doc : Docs, writer : {"prior", "canonicalizer"}]

\* Result<T, String>
Ok(x) == [ok |-> TRUE, value |-> Some(x), err |-> NoneV]
Err(msg) == [ok |-> FALSE, value |-> NoneV, err |-> Some(msg)]

\* A printed line: its text and the value formatted into it, if any.
Line(text) == [text |-> text, value |-> NoneV]
LineOf(text, v) == [text |-> text, value |-> Some(v)]

\* The steps of the pipeline, in the order main runs them.
Steps == {"persist", "clear", "invoke", "read", "parse",
          "execute", "setup", "prove", "verify", "report"}

\* ---------------------------------------------------------------- state
VARIABLES
    args,           \* Args::parse()
    pc,             \* position of main / generate_email_inputs
    exit_code,      \* Option: the exit status once the process has ended
    stdout,         \* lines printed with println!
    stderr,         \* diagnostics: eprintln! and panic messages
    test_email,     \* test-emails/test-email.eml
    email_eml,      \* email-input/email.eml
    artifact,       \* email-input/email-inputs.json
    email,          \* main's `email`, moved into generate_email_inputs
    task,           \* the blocking tasks of the generator: kind -> state
    child,          \* the canonicalizer child process
    email_inputs_json, \* generate_email_inputs' `email_inputs_json`
    gen_result,     \* Option: what generate_email_inputs returned
    client,         \* whether ProverClient::new() has been built
    stdin,          \* SP1Stdin: the values written to it
    exec_result,    \* Option: (output, report) of client.execute
    keys,           \* Option: (pk, vk) of client.setup
    proof,          \* Option: the proof of client.prove
    verify_call,    \* Option: the arguments client.verify was called with
    stale_at_start, \* history: email-inputs.json existed when the run began
    begun,          \* history: the pipeline steps begun, in order
    result          \* history: each step's outcome as the code sees it

procVars == <<args, stale_at_start, pc, exit_code, stdout, stderr>>
fsVars == <<test_email, email_eml, artifact>>
genVars == <<email, task, child, email_inputs_json, gen_result>>
proverVars == <<client, stdin, exec_result, keys, proof, verify_call>>
histVars == <<begun, result>>
vars == <<procVars, fsVars, genVars, proverVars, histVars>>

\* The blocking tasks generate_email_inputs dispatches, and the state of each:
\* not dispatched, running on the pool, finished or panicked there, and
\* joined by the await on its handle.
TaskKinds == {"write", "delete", "run"}
TaskStates == {"idle", "running", "done", "panicked", "joined"}
IdleTask == [k \in TaskKinds |-> "idle"]
NoChild == [state |-> "none", code |-> NoneV]

Init ==
    /\ args \in Args
    /\ pc = "check_mode"
    /\ exit_code = NoneV
    /\ stdout = <<>>
    /\ stderr = <<>>
    /\ test_email \in {NoneV} \cup {Some(e) : e \in Emails}
    /\ email_eml \in {NoneV} \cup {Some(e) : e \in Emails}
    /\ artifact \in {NoneV} \cup {Some([doc |-> d, writer |-> "prior"]) : d \in Docs}
    /\ email = NoneV
    /\ task = IdleTask
    /\ child = NoChild
    /\ email_inputs_json = NoneV
    /\ gen_result = NoneV
    /\ client = FALSE
    /\ stdin = <<>>
    /\ exec_result = NoneV
    /\ keys = NoneV
    /\ proof = NoneV
    /\ verify_call = NoneV
    /\ stale_at_start = IsSome(artifact)
    /\ begun = <<>>
    /\ result = [s \in Steps |-> "none"]

\* ------------------------------------------------------------- helpers
\* A panic: the message goes to stderr and the process ends with 101.
Panic(msg) ==
    /\ pc' = "exited"
    /\ exit_code' = Some(ExitPanic)
    /\ stderr' = Append(stderr, msg)

Begin(step) == begun' = Append(begun, step)
Finish(step, how) == result' = [result EXCEPT ![step] = how]

\* ------------------------------------------------- main: mode selection
\* Faulty variant: only the both-flags case is rejected.
mode_rejected_both_only(a) == a.execute /\ a.prove

\* main.rs:103  `args.execute == args.prove`
mode_rejected(a) == a.execute = a.prove

\* main.rs:103-106: neither or both flags: diagnostic and exit(1).
CheckMode ==
    /\ pc = "check_mode"
    /\ IF mode_rejected(args)
         THEN /\ stderr' = Append(stderr, "Error: You must specify either --execute or --prove")
              /\ exit_code' = Some(ExitConfig)
              /\ pc' = "exited"
         ELSE /\ pc' = "new_client"
              /\ UNCHANGED <<stderr, exit_code>>
    /\ UNCHANGED <<args, stale_at_start, stdout, fsVars, genVars, proverVars, histVars>>

\* main.rs:109: ProverClient::new()
NewClient ==
    /\ pc = "new_client"
    /\ client' = TRUE
    /\ pc' = "read_email"
    /\ UNCHANGED <<args, stale_at_start, exit_code, stdout, stderr, fsVars, genVars, stdin,
                   exec_result, keys, proof, verify_call, histVars>>

\* Faulty variant: a missing test email is taken as an empty one (unwrap_or_default).
ReadTestEmail_default ==
    /\ pc = "read_email"
    /\ email' = IF IsSome(test_email) THEN test_email ELSE Some("")
    /\ pc' = "persist"
    /\ UNCHANGED <<args, stale_at_start, exit_code, stdout, stderr, fsVars, task, child,
                   email_inputs_json, gen_result, proverVars, histVars>>

\* main.rs:112-113: fs::read_to_string("test-emails/test-email.eml").expect(..)
ReadTestEmail ==
    /\ pc = "read_email"
    /\ IF IsSome(test_email)
         THEN /\ email' = test_email
              /\ pc' = "persist"
              /\ UNCHANGED <<exit_code, stderr>>
         ELSE /\ Panic("Failed to read test email file - ensure test-emails/test-email.eml exists")
              /\ UNCHANGED email
    /\ UNCHANGED <<args, stale_at_start, stdout, fsVars, task, child, email_inputs_json, gen_result,
                   proverVars, histVars>>

\* ------------------------------- generate_email_inputs: step 1, persist
\* main.rs:50-52: web::block(..) hands the write to the blocking pool.
DispatchWrite ==
    /\ pc = "persist"
    /\ task' = [task EXCEPT !["write"] = "running"]
    /\ pc' = "await_write"
    /\ Begin("persist")
    /\ UNCHANGED <<args, stale_at_start, exit_code, stdout, stderr, fsVars, email, child,
                   email_inputs_json, gen_result, proverVars, result>>

\* main.rs:51: fs::write("email-input/email.eml", email).expect(..), on the pool.
RunWrite ==
    /\ task["write"] = "running"
    /\ \E written \in BOOLEAN :
          IF written
          THEN /\ email_eml' = email
               /\ task' = [task EXCEPT !["write"] = "done"]
          ELSE /\ task' = [task EXCEPT !["write"] = "panicked"]
               /\ UNCHANGED email_eml
    /\ UNCHANGED <<procVars, test_email, artifact, email, child, email_inputs_json,
                   gen_result, proverVars, histVars>>

\* Faulty variant: the handle of the write is not awaited, the generator goes
\* on while the write may still be running on the pool.
AwaitWrite_not_awaited ==
    /\ pc = "await_write"
    /\ pc' = "clear"
    /\ Finish("persist", "ok")
    /\ UNCHANGED <<args, stale_at_start, exit_code, stdout, stderr, fsVars, email, task, child,
                   email_inputs_json, gen_result, proverVars, begun>>

\* main.rs:53: write_email.await.expect("failed to write email.eml")
AwaitWrite ==
    /\ pc = "await_write"
    /\ task["write"] \in {"done", "panicked"}
    /\ IF task["write"] = "done"
         THEN /\ pc' = "clear"
              /\ Finish("persist", "ok")
              /\ UNCHANGED <<exit_code, stderr>>
         ELSE /\ Panic("failed to write email.eml")
              /\ Finish("persist", "failed")
    /\ task' = [task EXCEPT !["write"] = "joined"]
    /\ UNCHANGED <<args, stale_at_start, stdout, fsVars, email, child, email_inputs_json, gen_result,
                   proverVars, begun>>

\* --------------------------- generate_email_inputs: step 2, clear stale
\* Faulty variant: the existence test never finds the file, so it is never
\* deleted.
metadata_never_ok(file) == FALSE

\* main.rs:58  fs::metadata(script_path).is_ok(): the file is there.
metadata_is_ok(file) == IsSome(file)

\* Faulty variant: the deletion leaves the file in place.
remove_file_keeps(file) == file

\* main.rs:59  fs::remove_file(script_path), when it succeeds.
remove_file(file) == NoneV

\* main.rs:56-61: spawn_blocking hands the deletion to the blocking pool.
DispatchDelete ==
    /\ pc = "clear"
    /\ task' = [task EXCEPT !["delete"] = "running"]
    /\ pc' = "await_delete"
    /\ Begin("clear")
    /\ UNCHANGED <<args, stale_at_start, exit_code, stdout, stderr, fsVars, email, child,
                   email_inputs_json, gen_result, proverVars, result>>

\* main.rs:57-60: delete email-inputs.json if it exists, on the pool.
RunDelete ==
    /\ task["delete"] = "running"
    /\ IF metadata_is_ok(artifact)
         THEN \E removed \in BOOLEAN :
                IF removed
                THEN /\ artifact' = remove_file(artifact)
                     /\ task' = [task EXCEPT !["delete"] = "done"]
                ELSE /\ task' = [task EXCEPT !["delete"] = "panicked"]
                     /\ UNCHANGED artifact
         ELSE /\ task' = [task EXCEPT !["delete"] = "done"]
              /\ UNCHANGED artifact
    /\ UNCHANGED <<procVars, test_email, email_eml, email, child, email_inputs_json,
                   gen_result, proverVars, histVars>>

\* main.rs:62-64: delete_script.await.expect("failed to delete email-inputs.json")
AwaitDelete ==
    /\ pc = "await_delete"
    /\ task["delete"] \in {"done", "panicked"}
    /\ IF task["delete"] = "done"
         THEN /\ pc' = "invoke"
              /\ Finish("clear", "ok")
              /\ UNCHANGED <<exit_code, stderr>>
         ELSE /\ Panic("failed to delete email-inputs.json")
              /\ Finish("clear", "failed")
    /\ task' = [task EXCEPT !["delete"] = "joined"]
    /\ UNCHANGED <<args, stale_at_start, stdout, fsVars, email, child, email_inputs_json, gen_result,
                   proverVars, begun>>

\* ------------------------------- generate_email_inputs: step 3, invoke
\* main.rs:67-75: spawn_blocking hands the canonicalizer run to the pool.
DispatchRun ==
    /\ pc = "invoke"
    /\ task' = [task EXCEPT !["run"] = "running"]
    /\ pc' = "await_run"
    /\ Begin("invoke")
    /\ UNCHANGED <<args, stale_at_start, exit_code, stdout, stderr, fsVars, email, child,
                   email_inputs_json, gen_result, proverVars, result>>

\* main.rs:68-72: Command::new("sh")...spawn().expect(..), on the pool.
SpawnChild ==
    /\ task["run"] = "running"
    /\ child.state = "none"
    /\ \E spawned \in BOOLEAN :
          IF spawned
          THEN /\ child' = [child EXCEPT !.state = "running"]
               /\ UNCHANGED task
          ELSE /\ task' = [task EXCEPT !["run"] = "panicked"]
               /\ UNCHANGED child
    /\ UNCHANGED <<procVars, fsVars, email, email_inputs_json, gen_result,
                   proverVars, histVars>>

\* The child `cd email-input && node generate-email-inputs.js`: it may write
\* email-inputs.json, or not, and it exits with status 0 or another one.
ChildRuns ==
    /\ child.state = "running"
    /\ \E code \in {0, 1} :
          child' = [state |-> "exited", code |-> Some(code)]
    /\ \/ UNCHANGED artifact
       \/ \E d \in Docs : artifact' = Some([doc |-> d, writer |-> "canonicalizer"])
    /\ UNCHANGED <<procVars, test_email, email_eml, email, task, email_inputs_json,
                   gen_result, proverVars, histVars>>

\* main.rs:73-74: .wait().expect(..): the exit status it returns is dropped.
WaitChild ==
    /\ task["run"] = "running"
    /\ child.state = "exited"
    /\ \E waited \in BOOLEAN :
          task' = [task EXCEPT !["run"] = IF waited THEN "done" ELSE "panicked"]
    /\ UNCHANGED <<procVars, fsVars, email, child, email_inputs_json, gen_result,
                   proverVars, histVars>>

\* main.rs:76-78: run_script.await.expect("failed to run generate-email-inputs.js")
AwaitRun ==
    /\ pc = "await_run"
    /\ task["run"] \in {"done", "panicked"}
    /\ IF task["run"] = "done"
         THEN /\ pc' = "read"
              /\ Finish("invoke", "ok")
              /\ UNCHANGED <<exit_code, stderr>>
         ELSE /\ Panic("failed to run generate-email-inputs.js")
              /\ Finish("invoke", "failed")
    /\ task' = [task EXCEPT !["run"] = "joined"]
    /\ UNCHANGED <<args, stale_at_start, stdout, fsVars, email, child, email_inputs_json, gen_result,
                   proverVars, begun>>

\* ----------------------- generate_email_inputs: step 4, read and parse
\* main.rs:82  fs::read_to_string: the file must exist and hold UTF-8 text.
read_to_string(file) ==
    IF ~IsSome(file) THEN Err("No such file or directory")
    ELSE IF Unwrap(file).doc.kind = "bytes"
         THEN Err("stream did not contain valid UTF-8")
         ELSE Ok(Unwrap(file))

\* The position of a field in the struct declaration.
FieldIndex(field) == CHOOSE i \in 1..Len(FieldOrder) : FieldOrder[i] = field

IsString(v) == v \in {StrVal, EmptyStr}

\* main.rs:86  serde_json::from_str::<EmailInputs>: the derived Deserialize
\* takes a JSON object holding a string at each of the five camelCase keys
\* (no default, no coercion of another type), or a JSON array of exactly five
\* strings taken in declaration order; everything else is an error.
from_str(doc) ==
    CASE doc.kind = "object" ->
           IF \A k \in Keys : IsString(doc.fields[k])
           THEN Ok([f \in Fields |-> doc.fields[camelCase(f)]])
           ELSE IF \E k \in Keys : doc.fields[k] = Missing
                THEN Err("missing field")
                ELSE Err("invalid type: expected a string")
      [] doc.kind = "array" ->
           IF Len(doc.elems) # Len(FieldOrder)
           THEN Err("invalid length")
           ELSE IF \A i \in 1..Len(doc.elems) : IsString(doc.elems[i])
                THEN Ok([f \in Fields |-> doc.elems[FieldIndex(f)]])
                ELSE Err("invalid type: expected a string")
      [] OTHER -> Err("expected value")

\* main.rs:81-85: read email-inputs.json; an error returns Err to main.
ReadArtifact ==
    /\ pc = "read"
    /\ Begin("read")
    /\ LET r == read_to_string(artifact) IN
         IF r.ok
         THEN /\ email_inputs_json' = r.value
              /\ pc' = "parse"
              /\ Finish("read", "ok")
              /\ UNCHANGED gen_result
         ELSE /\ gen_result' = Some(Err(<<"failed to read email-inputs.json", Unwrap(r.err)>>))
              /\ pc' = "gen_returned"
              /\ Finish("read", "failed")
              /\ UNCHANGED email_inputs_json
    /\ UNCHANGED <<args, stale_at_start, exit_code, stdout, stderr, fsVars, email, task, child,
                   proverVars>>

\* main.rs:86-92: parse the text; Err on a parse error, else Ok(email_inputs).
ParseArtifact ==
    /\ pc = "parse"
    /\ Begin("parse")
    /\ LET r == from_str(Unwrap(email_inputs_json).doc) IN
         IF r.ok
         THEN /\ gen_result' = Some(r)
              /\ Finish("parse", "ok")
         ELSE /\ gen_result' = Some(Err(<<"failed to parse email-inputs.json", Unwrap(r.err)>>))
              /\ Finish("parse", "failed")
    /\ pc' = "gen_returned"
    /\ UNCHANGED <<args, stale_at_start, exit_code, stdout, stderr, fsVars, email, task, child,
                   email_inputs_json, proverVars>>

\* main.rs:114-120: .await.expect("Failed to generate email inputs"), then
\* the inputs are written to a fresh SP1Stdin.
ExpectInputs ==
    /\ pc = "gen_returned"
    /\ IF Unwrap(gen_result).ok
         THEN /\ stdin' = Append(stdin, Unwrap(Unwrap(gen_result).value))
              /\ pc' = "branch"
              /\ UNCHANGED <<exit_code, stderr>>
         ELSE /\ Panic("Failed to generate email inputs")
              /\ UNCHANGED stdin
    /\ UNCHANGED <<args, stale_at_start, stdout, fsVars, genVars, client, exec_result, keys, proof,
                   verify_call, histVars>>

\* --------------------------------------------------- main: execute branch
\* Faulty variant: the success line is printed before the result is unwrapped.
Execute_prints_first ==
    /\ pc = "branch"
    /\ args.execute
    /\ Begin("execute")
    /\ stdout' = Append(stdout, Line("Program executed successfully."))
    /\ \/ \E n \in 0..MaxCycles :
            /\ exec_result' = Some([output |-> "public values", cycles |-> n])
            /\ pc' = "report_execute"
            /\ Finish("execute", "ok")
            /\ UNCHANGED <<exit_code, stderr>>
       \/ /\ Panic("called Result::unwrap() on an Err value")
          /\ Finish("execute", "failed")
          /\ UNCHANGED exec_result
    /\ UNCHANGED <<args, stale_at_start, fsVars, genVars, client, stdin, keys, proof,
                   verify_call>>

\* main.rs:122-124: client.execute(ZKEMAIL_ELF, stdin).run().unwrap()
Execute ==
    /\ pc = "branch"
    /\ args.execute
    /\ Begin("execute")
    /\ \/ \E n \in 0..MaxCycles :
            /\ exec_result' = Some([output |-> "public values", cycles |-> n])
            /\ pc' = "report_execute"
            /\ Finish("execute", "ok")
            /\ UNCHANGED <<exit_code, stderr>>
       \/ /\ Panic("called Result::unwrap() on an Err value")
          /\ Finish("execute", "failed")
          /\ UNCHANGED exec_result
    /\ UNCHANGED <<args, stale_at_start, stdout, fsVars, genVars, client, stdin, keys, proof,
                   verify_call>>

\* Faulty variant: the cycle count is printed before the output.
execute_report_swapped(r) ==
    << Line("Program executed successfully."),
       LineOf("Number of cycles", r.cycles),
       LineOf("Output", r.output) >>

\* main.rs:125-131: the three lines an execution prints.
execute_report(r) ==
    << Line("Program executed successfully."),
       LineOf("Output", r.output),
       LineOf("Number of cycles", r.cycles) >>

ReportExecute ==
    /\ pc = "report_execute"
    /\ Begin("report")
    /\ stdout' = stdout \o execute_report(Unwrap(exec_result))
    /\ Finish("report", "ok")
    /\ pc' = "return"
    /\ UNCHANGED <<args, stale_at_start, exit_code, stderr, fsVars, genVars, proverVars>>

\* ----------------------------------------------------- main: prove branch
\* Faulty variant: the prove branch is not the else of the execute branch, so
\* it is entered whatever the mode.
Setup_any_mode ==
    /\ pc = "branch"
    /\ Begin("setup")
    /\ \/ /\ keys' = Some([pk |-> "pk(ZKEMAIL_ELF)", vk |-> "vk(ZKEMAIL_ELF)"])
          /\ pc' = "prove"
          /\ Finish("setup", "ok")
          /\ UNCHANGED <<exit_code, stderr>>
       \/ /\ Panic("setup failed")
          /\ Finish("setup", "failed")
          /\ UNCHANGED keys
    /\ UNCHANGED <<args, stale_at_start, stdout, fsVars, genVars, client, stdin, exec_result, proof,
                   verify_call>>

\* main.rs:132-134: client.setup(ZKEMAIL_ELF) yields (pk, vk) or panics.
Setup ==
    /\ pc = "branch"
    /\ ~args.execute
    /\ Begin("setup")
    /\ \/ /\ keys' = Some([pk |-> "pk(ZKEMAIL_ELF)", vk |-> "vk(ZKEMAIL_ELF)"])
          /\ pc' = "prove"
          /\ Finish("setup", "ok")
          /\ UNCHANGED <<exit_code, stderr>>
       \/ /\ Panic("setup failed")
          /\ Finish("setup", "failed")
          /\ UNCHANGED keys
    /\ UNCHANGED <<args, stale_at_start, stdout, fsVars, genVars, client, stdin, exec_result, proof,
                   verify_call>>

\* main.rs:137-140: client.prove(&pk, stdin).run().expect("failed to generate proof")
Prove ==
    /\ pc = "prove"
    /\ Begin("prove")
    /\ \/ /\ proof' = Some([pk |-> Unwrap(keys).pk, stdin |-> stdin])
          /\ pc' = "print_generated"
          /\ Finish("prove", "ok")
          /\ UNCHANGED <<exit_code, stderr>>
       \/ /\ Panic("failed to generate proof")
          /\ Finish("prove", "failed")
          /\ UNCHANGED proof
    /\ UNCHANGED <<args, stale_at_start, stdout, fsVars, genVars, client, stdin, exec_result, keys,
                   verify_call>>

\* main.rs:142: println!("Successfully generated proof!")
PrintGenerated ==
    /\ pc = "print_generated"
    /\ Begin("report")
    /\ stdout' = Append(stdout, Line("Successfully generated proof!"))
    /\ pc' = "verify"
    /\ UNCHANGED <<args, stale_at_start, exit_code, stderr, fsVars, genVars, proverVars, result>>

\* main.rs:145  the arguments of client.verify(&proof, &vk)
verify_args == [proof |-> Unwrap(proof), vk |-> Unwrap(keys).vk]

\* Faulty variant: the result of verify is dropped instead of expected.
verify_passes_always(verified) == TRUE

\* main.rs:145  .expect("failed to verify proof"): whether main goes on
\* after verify returned `verified`.
verify_passes(verified) == verified

\* main.rs:145: client.verify(&proof, &vk).expect("failed to verify proof")
Verify ==
    /\ pc = "verify"
    /\ Begin("verify")
    /\ verify_call' = Some(verify_args)
    /\ \E verified \in BOOLEAN :
          /\ Finish("verify", IF verified THEN "ok" ELSE "failed")
          /\ IF verify_passes(verified)
             THEN /\ pc' = "print_verified"
                  /\ UNCHANGED <<exit_code, stderr>>
             ELSE Panic("failed to verify proof")
    /\ UNCHANGED <<args, stale_at_start, stdout, fsVars, genVars, client, stdin, exec_result, keys,
                   proof>>

\* main.rs:146: println!("Successfully verified proof!")
PrintVerified ==
    /\ pc = "print_verified"
    /\ Begin("report")
    /\ stdout' = Append(stdout, Line("Successfully verified proof!"))
    /\ Finish("report", "ok")
    /\ pc' = "return"
    /\ UNCHANGED <<args, stale_at_start, exit_code, stderr, fsVars, genVars, proverVars>>

\* main.rs:147-148: main returns: exit status 0.
MainReturn ==
    /\ pc = "return"
    /\ exit_code' = Some(ExitOk)
    /\ pc' = "exited"
    /\ UNCHANGED <<args, stale_at_start, stdout, stderr, fsVars, genVars, proverVars, histVars>>

\* ------------------------------------------------------------ the system
Next ==
    \/ CheckMode
    \/ NewClient
    \/ ReadTestEmail
    \/ DispatchWrite
    \/ RunWrite
    \/ AwaitWrite
    \/ DispatchDelete
    \/ RunDelete
    \/ AwaitDelete
    \/ DispatchRun
    \/ SpawnChild
    \/ ChildRuns
    \/ WaitChild
    \/ AwaitRun
    \/ ReadArtifact
    \/ ParseArtifact
    \/ ExpectInputs
    \/ Execute
    \/ ReportExecute
    \/ Setup
    \/ Prove
    \/ PrintGenerated
    \/ Verify
    \/ PrintVerified
    \/ MainReturn

Spec == Init /\ [][Next]_vars

\* The run under the assumption that every external operation returns and
\* main is scheduled: a step that can be taken is eventually taken.
FairSpec == Spec /\ WF_vars(Next)

\* ------------------------------------------------------------ type check
Exited == pc = "exited"

TypeOK ==
    /\ args \in Args
    /\ exit_code \in {NoneV, Some(ExitOk), Some(ExitConfig), Some(ExitPanic)}
    /\ Exited <=> IsSome(exit_code)
    /\ artifact \in {NoneV} \cup {Some(a) : a \in Artifacts}
    /\ task \in [TaskKinds -> TaskStates]
    /\ child.state \in {"none", "running", "exited"}
    /\ \A i \in 1..Len(begun) : begun[i] \in Steps
    /\ result \in [Steps -> {"none", "ok", "failed"}]

\* =================================================================
\* Properties
\* =================================================================
Range(seq) == {seq[i] : i \in 1..Len(seq)}
Began(step) == step \in Range(begun)
HasLine(text) == \E i \in 1..Len(stdout) : stdout[i].text = text
ValidMode == args.execute # args.prove
ProverOps == {"execute", "setup", "prove", "verify"}
NoProverOperation ==
    /\ Range(begun) \cap ProverOps = {}
    /\ exec_result = NoneV /\ keys = NoneV /\ proof = NoneV /\ verify_call = NoneV
\* Nothing after the Mode Selector has run.
NothingDownstream ==
    /\ begun = <<>>
    /\ ~client
    /\ email = NoneV
    /\ task = IdleTask
    /\ child = NoChild
    /\ gen_result = NoneV
    /\ stdin = <<>>
    /\ NoProverOperation
ExecuteEntered == Began("execute")
ProveEntered == Began("setup")

\* C1 as stated: rejected flag pairs exit non-zero with nothing downstream
\* invoked, and every run with a valid pair enters exactly one branch of the
\* Prover Orchestrator.
C1_ExactlyOneBranchAlways ==
    /\ (~ValidMode) => NothingDownstream /\ (Exited => exit_code # Some(ExitOk))
    /\ (ValidMode /\ Exited) => (ExecuteEntered # ProveEntered)

\* C1 amended: rejected flag pairs (both or neither) exit with status 1 and
\* nothing downstream is invoked; with a valid pair the run goes past the Mode
\* Selector, never enters both branches nor the branch the flags did not
\* select, and enters exactly one branch whenever the Generator returned Ok.
C1_ModeSelector ==
    /\ (~ValidMode) =>
          /\ NothingDownstream
          /\ stdout = <<>>
          /\ Exited => exit_code = Some(ExitConfig)
    /\ ValidMode =>
          /\ exit_code # Some(ExitConfig)
          /\ Exited => client
          /\ ~(ExecuteEntered /\ ProveEntered)
          /\ ExecuteEntered => args.execute
          /\ ProveEntered => args.prove
          /\ (Exited /\ IsSome(gen_result) /\ Unwrap(gen_result).ok) =>
                (ExecuteEntered # ProveEntered)

\* C1 witness: both flags set, the process has exited with status 1.
C1_Witness ==
    /\ args.execute /\ args.prove
    /\ Exited
    /\ exit_code = Some(ExitConfig)

\* C1 witness of the other half: a valid pair whose run entered a branch.
C1_BranchEntered == ValidMode /\ Exited /\ ProveEntered /\ ~ExecuteEntered

\* C2: what the Generator reads after the canonicalizer step was written by
\* the canonicalizer in this run, never left over from before the run; when
\* the canonicalizer has exited without writing, the run fails and no
\* EmailInputs reaches the prover.
FreshArtifact == IsSome(artifact) /\ Unwrap(artifact).writer = "canonicalizer"
C2_StaleNeverConsumed ==
    /\ IsSome(email_inputs_json) =>
          /\ Unwrap(email_inputs_json).writer = "canonicalizer"
          /\ artifact = email_inputs_json
    /\ (stdin # <<>> \/ ~NoProverOperation) =>
          /\ IsSome(email_inputs_json)
          /\ Unwrap(email_inputs_json).writer = "canonicalizer"
    /\ (child.state = "exited" /\ ~FreshArtifact) =>
          /\ email_inputs_json = NoneV
          /\ stdin = <<>>
          /\ NoProverOperation
          /\ Exited => exit_code = Some(ExitPanic)

\* C2 witness: the run began with a stale artifact, the canonicalizer wrote a
\* new one, and the Generator has read it.
C2_Witness ==
    /\ stale_at_start
    /\ IsSome(email_inputs_json)
    /\ stdin # <<>>

\* C2 witness of the failure half: a stale artifact at the start, a
\* canonicalizer that wrote nothing, and the run has failed.
C2_WitnessNothingWritten ==
    /\ stale_at_start
    /\ child.state = "exited"
    /\ artifact = NoneV
    /\ Exited

\* C3: when the canonicalizer cannot be spawned, or exits with a non-zero
\* status, the invoke step fails and neither the read-and-parse step nor any
\* prover operation follows.
CanonicalizerFailed ==
    \/ task["run"] = "panicked"
    \/ result["invoke"] = "failed"
    \/ (child.state = "exited" /\ child.code # Some(0))
C3_CanonicalizerFailureFatal ==
    CanonicalizerFailed =>
        /\ result["invoke"] # "ok"
        /\ ~Began("read") /\ ~Began("parse")
        /\ gen_result = NoneV
        /\ NoProverOperation
        /\ Exited => exit_code = Some(ExitPanic)

\* C4: the verified confirmation is printed, and a Prove-mode run exits 0,
\* only after verify was called on this run's proof with this run's verifying
\* key and returned success; a verify error ends the run with a non-zero
\* status and the verified confirmation is never printed.
VerifiedLine == "Successfully verified proof!"
GeneratedLine == "Successfully generated proof!"
VerifiedThisRun ==
    /\ IsSome(keys) /\ IsSome(proof) /\ IsSome(verify_call)
    /\ Unwrap(proof).pk = Unwrap(keys).pk
    /\ Unwrap(proof).stdin = stdin
    /\ Unwrap(verify_call).proof = Unwrap(proof)
    /\ Unwrap(verify_call).vk = Unwrap(keys).vk
    /\ result["verify"] = "ok"
C4_VerificationNeverSuppressed ==
    /\ HasLine(VerifiedLine) => VerifiedThisRun
    /\ (args.prove /\ exit_code = Some(ExitOk)) => VerifiedThisRun /\ HasLine(VerifiedLine)
    /\ result["verify"] = "failed" =>
          /\ ~HasLine(VerifiedLine)
          /\ Exited
          /\ exit_code = Some(ExitPanic)

\* C4 witness: a Prove-mode run that verified its proof and exited 0.
C4_Witness ==
    /\ args.prove
    /\ exit_code = Some(ExitOk)
    /\ HasLine(VerifiedLine)

\* C4 witness of the failure half: verify returned an error.
C4_WitnessVerifyFailed == result["verify"] = "failed" /\ Exited

\* C5: the steps are begun only in the order persist, clear, invoke, read
\* (and parse), execute or setup and prove, verify, report, and a step is
\* begun only after its predecessor completed successfully, which for the
\* invoke step means a canonicalizer that exited with status 0.
Rank(step) ==
    CASE step = "persist" -> 1
      [] step = "clear" -> 2
      [] step = "invoke" -> 3
      [] step = "read" -> 4
      [] step = "parse" -> 5
      [] step \in {"execute", "setup"} -> 6
      [] step = "prove" -> 7
      [] step = "verify" -> 8
      [] step = "report" -> 9
InvokeSucceeded ==
    /\ result["invoke"] = "ok"
    /\ child.state = "exited"
    /\ child.code = Some(0)
PredecessorSucceeded(step) ==
    CASE step = "persist" -> TRUE
      [] step = "clear" -> result["persist"] = "ok"
      [] step = "invoke" -> result["clear"] = "ok"
      [] step = "read" -> InvokeSucceeded
      [] step = "parse" -> result["read"] = "ok"
      [] step \in {"execute", "setup"} -> result["parse"] = "ok"
      [] step = "prove" -> result["setup"] = "ok"
      [] step = "verify" -> result["prove"] = "ok"
      [] step = "report" ->
           IF args.execute THEN result["execute"] = "ok" ELSE result["verify"] = "ok"
C5_StrictStepOrdering ==
    /\ \A i, j \in 1..Len(begun) : i < j => Rank(begun[i]) <= Rank(begun[j])
    /\ \A i \in 1..Len(begun) : PredecessorSucceeded(begun[i])

\* C6 as stated: with the test email file missing the Generator fails at its
\* persist step, and the process exits non-zero with no subprocess spawned.
EmailMissing == test_email = NoneV
C6_FailsAtPersist ==
    (ValidMode /\ EmailMissing /\ Exited) =>
        /\ result["persist"] = "failed"
        /\ exit_code # Some(ExitOk)
        /\ child = NoChild

\* C6 amended: with the test email file missing, main panics when it reads the
\* file, before the Generator is called: no step of the Generator is begun (no
\* persist, so no write error), no subprocess is spawned, and the process
\* exits non-zero.
C6_FailsAtEmailRead ==
    (ValidMode /\ EmailMissing) =>
        /\ begun = <<>>
        /\ email = NoneV
        /\ task = IdleTask
        /\ child = NoChild
        /\ gen_result = NoneV
        /\ NoProverOperation
        /\ Exited =>
              /\ exit_code = Some(ExitPanic)
              /\ stderr = <<"Failed to read test email file - ensure test-emails/test-email.eml exists">>

\* C6 witness: a valid mode, no test email file, and the process has exited.
C6_Witness == ValidMode /\ EmailMissing /\ Exited /\ exit_code = Some(ExitPanic)

\* What the spec's file format calls well-formed: a JSON object holding a
\* string at each of the five keys.
WellFormed(doc) ==
    /\ doc.kind = "object"
    /\ \A k \in Keys : doc.fields[k] \in {StrVal, EmptyStr}
\* What the derived deserializer takes: that, or an array of five strings.
FiveStrings(doc) ==
    /\ doc.kind = "array"
    /\ Len(doc.elems) = Cardinality(Fields)
    /\ \A i \in 1..Len(doc.elems) : doc.elems[i] \in {StrVal, EmptyStr}
ReadableText(file) == IsSome(file) /\ Unwrap(file).doc.kind # "bytes"
ReadError == "failed to read email-inputs.json"
ParseError == "failed to parse email-inputs.json"
GenErr(kind) ==
    /\ ~Unwrap(gen_result).ok
    /\ Unwrap(Unwrap(gen_result).err)[1] = kind
GenFailureIsFatal ==
    (IsSome(gen_result) /\ ~Unwrap(gen_result).ok) =>
        /\ stdin = <<>>
        /\ NoProverOperation
        /\ stdout = <<>>
        /\ Exited => exit_code = Some(ExitPanic)

\* C7: once the Generator has returned, a missing artifact gave the read
\* error and text that is not well-formed gave the parse error; a record is
\* returned only for a well-formed artifact and carries exactly its strings
\* (nothing defaulted or coerced); either error ends the run non-zero with no
\* prover operation.
C7_MissingReadMalformedParse ==
    /\ IsSome(gen_result) =>
          LET g == Unwrap(gen_result) IN
          /\ artifact = NoneV => GenErr(ReadError)
          /\ (ReadableText(artifact) /\ ~WellFormed(Unwrap(artifact).doc)) =>
                GenErr(ParseError)
          /\ g.ok =>
                /\ WellFormed(Unwrap(artifact).doc)
                /\ \A f \in Fields :
                      Unwrap(g.value)[f] = Unwrap(artifact).doc.fields[camelCase(f)]
    /\ GenFailureIsFatal

\* What the read-and-parse step does, exactly: an artifact that is missing or
\* is not UTF-8 text gives the read error; text that is neither a JSON object
\* with a string at each of the five keys nor a JSON array of exactly five
\* strings gives the parse error; an accepted record carries the strings of
\* the artifact; either error is fatal.
ReadAndParseBehaviour ==
    /\ IsSome(gen_result) =>
          LET g == Unwrap(gen_result) IN
          /\ ~ReadableText(artifact) <=> (~g.ok /\ GenErr(ReadError))
          /\ (ReadableText(artifact) /\ ~WellFormed(Unwrap(artifact).doc)
                 /\ ~FiveStrings(Unwrap(artifact).doc))
                <=> (~g.ok /\ GenErr(ParseError))
          /\ g.ok =>
                LET doc == Unwrap(artifact).doc
                    rec == Unwrap(g.value) IN
                /\ DOMAIN rec = Fields
                /\ doc.kind = "object" =>
                      \A f \in Fields : rec[f] = doc.fields[camelCase(f)]
                /\ doc.kind = "array" =>
                      \A i \in 1..Len(FieldOrder) : rec[FieldOrder[i]] = doc.elems[i]
    /\ GenFailureIsFatal

\* C8: every record the Generator returns Ok, and every record written to the
\* prover's stdin, has all five fields present and non-empty.
AllFieldsNonEmpty(rec) ==
    /\ DOMAIN rec = Fields
    /\ \A f \in Fields : rec[f] # EmptyStr
C8_AllFieldsNonEmpty ==
    /\ (IsSome(gen_result) /\ Unwrap(gen_result).ok) =>
          AllFieldsNonEmpty(Unwrap(Unwrap(gen_result).value))
    /\ \A i \in 1..Len(stdin) : AllFieldsNonEmpty(stdin[i])

\* C9 as stated: a run that ended with a non-zero exit has printed no success
\* output at all.
Failed == Exited /\ exit_code # Some(ExitOk)
FinalLines ==
    {VerifiedLine, "Program executed successfully.", "Output", "Number of cycles"}
EveryStepSucceeded ==
    /\ ValidMode
    /\ ~EmailMissing
    /\ \A st \in Steps : result[st] # "failed"
Texts == [i \in 1..Len(stdout) |-> stdout[i].text]
C10_SuccessfulRunsReportInOrder ==
    /\ (Exited /\ EveryStepSucceeded) => exit_code = Some(ExitOk)
    /\ (exit_code = Some(ExitOk) /\ args.execute) =>
          /\ Texts = <<"Program executed successfully.", "Output", "Number of cycles">>
          /\ stdout[2].value = Some(Unwrap(exec_result).output)
          /\ stdout[3].value = Some(Unwrap(exec_result).cycles)
          /\ Unwrap(stdout[3].value) >= 0
    /\ (exit_code = Some(ExitOk) /\ args.prove) =>
          Texts = <<GeneratedLine, VerifiedLine>>
    /\ \A i \in 1..Len(stdout) :
          stdout[i].text = VerifiedLine =>
             \E j \in 1..(i - 1) : stdout[j].text = GeneratedLine

\* C10 witness: an Execute-mode run that exited 0 after its report.
C10_Witness ==
    /\ args.execute
    /\ exit_code = Some(ExitOk)
    /\ Len(stdout) = 3

\* C10 witness of the Prove half: both confirmations printed, exit 0.
C10_WitnessProve ==
    /\ args.prove
    /\ exit_code = Some(ExitOk)
    /\ HasLine(GeneratedLine) /\ HasLine(VerifiedLine)

\* C11: a failure of the persist, clear, invoke, read or parse step makes
\* generate_email_inputs return Err to its caller, with the error of that
\* step.
GeneratorSteps == {"persist", "clear", "invoke", "read", "parse"}
ErrorOf(step) ==
    CASE step = "persist" -> "failed to write email.eml"
      [] step = "clear" -> "failed to delete email-inputs.json"
      [] step = "invoke" -> "failed to run generate-email-inputs.js"
      [] step = "read" -> ReadError
      [] step = "parse" -> ParseError
C11_EveryFailureReturnsErr ==
    \A step \in GeneratorSteps :
        result[step] = "failed" =>
            /\ IsSome(gen_result)
            /\ GenErr(ErrorOf(step))

\* What generate_email_inputs does on a failure, exactly: a failed read or
\* parse step returns Err with that step's message; a failed persist, clear
\* or invoke step panics inside the function, which returns nothing, and the
\* process ends with the panic status.
GeneratorFailureBehaviour ==
    /\ \A step \in {"read", "parse"} :
          result[step] = "failed" => IsSome(gen_result) /\ GenErr(ErrorOf(step))
    /\ \A step \in {"persist", "clear", "invoke"} :
          result[step] = "failed" =>
             /\ gen_result = NoneV
             /\ Exited
             /\ exit_code = Some(ExitPanic)
             /\ stderr = <<ErrorOf(step)>>

\* The number of times a step was begun, and the number of prover operations
\* the EmailInputs written to stdin were handed to.
Count(step) == Cardinality({i \in 1..Len(begun) : begun[i] = step})
Consumed == Count("execute") + Count("prove")
Before(a, b) ==
    \E i, j \in 1..Len(begun) : i < j /\ begun[i] = a /\ begun[j] = b
BranchesDisjoint ==
    /\ args.execute => ~Began("setup") /\ ~Began("prove") /\ ~Began("verify")
    /\ args.execute => keys = NoneV /\ proof = NoneV /\ verify_call = NoneV
    /\ ~args.execute => ~Began("execute") /\ exec_result = NoneV
    /\ Began("prove") => Before("setup", "prove") /\ result["setup"] = "ok"
    /\ (result["prove"] = "ok" /\ exit_code = Some(ExitOk)) =>
          Began("verify") /\ IsSome(verify_call)

\* C12 as stated: the branches share no step, setup precedes prove, a proved
\* run does not exit 0 without verify, and in every run that produced an
\* EmailInputs record the record is consumed by exactly one of execute and
\* prove.
C12_ConsumedExactlyOnce ==
    /\ BranchesDisjoint
    /\ (Exited /\ stdin # <<>>) => Consumed = 1

\* C12 amended: the branches share no step, setup precedes prove, a proved
\* run does not exit 0 without verify, and the EmailInputs record is consumed
\* by at most one of execute and prove: by exactly one in Execute mode and in
\* a Prove-mode run whose setup succeeded, by none when setup failed.
C12_BranchesShareNoStates ==
    /\ BranchesDisjoint
    /\ Consumed <= 1
    /\ Consumed = 1 => stdin # <<>>
    /\ (Exited /\ stdin # <<>>) =>
          (Consumed = 1 <=> (args.execute \/ result["setup"] = "ok"))

\* C12 witness: a Prove-mode run that ran setup, prove and verify and
\* exited 0.
C12_Witness ==
    /\ args.prove
    /\ exit_code = Some(ExitOk)
    /\ Before("setup", "prove")
    /\ Before("prove", "verify")

\* C12 witness of the case the amendment adds: setup failed, so the record
\* written to stdin was never consumed.
C12_WitnessSetupFailed ==
    /\ Exited
    /\ stdin # <<>>
    /\ result["setup"] = "failed"
    /\ Consumed = 0

\* C13: each of the nine steps is attempted at most once in a run, and once a
\* step has failed, which for the invoke step includes a canonicalizer that
\* exited with a non-zero status, no further step is attempted and the
\* process exits non-zero.
RetrySteps == Steps \ {"report"}
StepFailed(step) ==
    \/ result[step] = "failed"
    \/ /\ step = "invoke"
       /\ child.state = "exited"
       /\ child.code # Some(0)
C13_NoRetryNoContinuation ==
    /\ \A step \in RetrySteps : Count(step) <= 1
    /\ \A i \in 1..Len(begun) :
          (begun[i] \in RetrySteps /\ StepFailed(begun[i])) =>
             \A j \in (i + 1)..Len(begun) : begun[j] \notin RetrySteps
    /\ \A step \in RetrySteps :
          (StepFailed(step) /\ Exited) => exit_code # Some(ExitOk)

\* What holds of the code: each step is attempted at most once, and after a
\* step that the code itself sees fail (a panic or an Err) nothing further is
\* attempted and the process has ended with the panic status.
NoRetryAsTheCodeSeesIt ==
    /\ \A step \in RetrySteps : Count(step) <= 1
    /\ \A step \in RetrySteps :
          result[step] = "failed" =>
             /\ begun[Len(begun)] = step
             /\ pc \in {"gen_returned", "exited"}
             /\ Exited => exit_code = Some(ExitPanic)

\* C14: at most one offloaded task runs at a time and main does nothing else
\* meanwhile; a task is dispatched only after the one before it was joined;
\* the canonicalizer runs only after the write and the deletion are over, and
\* the artifact is read only after the canonicalizer has exited and its task
\* was joined.
RunningTasks == {k \in TaskKinds : task[k] = "running"}
AwaitOf(k) ==
    CASE k = "write" -> "await_write"
      [] k = "delete" -> "await_delete"
      [] k = "run" -> "await_run"
C14_NoOverlap ==
    /\ Cardinality(RunningTasks) <= 1
    /\ \A k \in TaskKinds : task[k] \in {"running", "done", "panicked"} => pc = AwaitOf(k)
    /\ task["delete"] # "idle" => task["write"] = "joined"
    /\ task["run"] # "idle" => task["delete"] = "joined"
    /\ child.state = "running" =>
          /\ task["write"] = "joined" /\ IsSome(email_eml)
          /\ task["delete"] = "joined"
          /\ pc = "await_run"
    /\ Began("read") =>
          /\ child.state = "exited"
          /\ task["run"] = "joined"

\* C14 witness: the canonicalizer is running, after the write and the
\* deletion were joined.
C14_Witness ==
    /\ child.state = "running"
    /\ task["write"] = "joined"
    /\ task["delete"] = "joined"

\* C14 witness of the read: the artifact has been read after the
\* canonicalizer exited.
C14_WitnessRead == Began("read") /\ child.state = "exited" /\ IsSome(email_inputs_json)

\* C15: from the moment the canonicalizer is invoked until it writes, there
\* is no email-inputs.json; with none at the start the clear step succeeds,
\* and a deletion that fails aborts the run with no canonicalizer invoked.
CanonicalizerInvoked == Began("invoke") /\ child.state \in {"none", "running"}
C15_ClearStalePostcondition ==
    /\ (pc = "invoke" \/ CanonicalizerInvoked) => artifact = NoneV
    /\ ~stale_at_start =>
          /\ result["clear"] # "failed"
          /\ task["delete"] # "panicked"
          /\ child.state \in {"none", "running"} => artifact = NoneV
    /\ (task["delete"] = "panicked" \/ result["clear"] = "failed") =>
          /\ stale_at_start
          /\ IsSome(artifact) /\ Unwrap(artifact).writer = "prior"
          /\ ~Began("invoke")
          /\ child = NoChild
          /\ pc \in {"await_delete", "exited"}
          /\ Exited => exit_code = Some(ExitPanic)

\* C15 witness: the run began with a stale artifact and the canonicalizer is
\* running with the artifact gone.
C15_Witness ==
    /\ stale_at_start
    /\ child.state = "running"
    /\ artifact = NoneV

\* C15 witness of the abort: the stale artifact could not be deleted.
C15_WitnessDeleteFailed == result["clear"] = "failed" /\ Exited /\ child = NoChild

\* Every step of the selected branch succeeded, the invoke step meaning a
\* canonicalizer that exited with status 0.
SelectedBranchSucceeded ==
    /\ result["persist"] = "ok"
    /\ result["clear"] = "ok"
    /\ InvokeSucceeded
    /\ result["read"] = "ok"
    /\ result["parse"] = "ok"
    /\ result["report"] = "ok"
    /\ IF args.execute
       THEN result["execute"] = "ok"
       ELSE result["setup"] = "ok" /\ result["prove"] = "ok" /\ result["verify"] = "ok"
\* The same with each step's outcome as the code sees it: an invoke step
\* counts as succeeded once the child was spawned and waited for.
SelectedBranchPassed ==
    /\ \A step \in GeneratorSteps \cup {"report"} : result[step] = "ok"
    /\ IF args.execute
       THEN result["execute"] = "ok"
       ELSE result["setup"] = "ok" /\ result["prove"] = "ok" /\ result["verify"] = "ok"
TerminalStateIsFinal == [][Exited => (exit_code' = exit_code /\ pc' = pc)]_vars

\* C16: every run ends, in one terminal state that is never left, and it ends
\* with exit status 0 exactly when the mode was valid and every step of the
\* selected branch succeeded.
C16_TerminatesExitZeroIffAllSucceeded ==
    /\ <>Exited
    /\ TerminalStateIsFinal
    /\ [](Exited => (exit_code = Some(ExitOk) <=> (ValidMode /\ SelectedBranchSucceeded)))

\* What holds of the code: every run ends, in one terminal state that is
\* never left, and it ends with exit status 0 exactly when the mode was valid
\* and the code saw every step of the selected branch pass.
TerminationAsTheCodeSeesIt ==
    /\ <>Exited
    /\ TerminalStateIsFinal
    /\ [](Exited => (exit_code = Some(ExitOk) <=> (ValidMode /\ SelectedBranchPassed)))

====
